---- MODULE Spec2Model ----
(***************************************************************************)
(* Model of the Oxidex in-memory index (src/src/oxidex.rs) and of the      *)
(* DocumentEntry it registers (src/src/document.rs).                       *)
(*                                                                         *)
(* A character is a one-element name ("a", "B", " ", ","); a text is a     *)
(* sequence of characters; a Token is a sequence of characters.  A score   *)
(* is kept symbolically (see get_normalised_tf_idf) so that two scores of   *)
(* one search compare as the f32 values do, up to rounding of values that   *)
(* are equal as real numbers.                                              *)
(***************************************************************************)
EXTENDS Integers, Sequences, FiniteSets, TLC

VARIABLES
  documents,       \* Oxidex::documents: id -> DocumentEntry
  inverted_index,  \* Oxidex::inverted_index: token -> (id -> count)
  next_idx,        \* Oxidex::next_idx
  added,           \* history: the ids registered by add_document, in call order
  removed,         \* history: the ids for which remove_id returned true
  doc_tokens,      \* history: id -> the token sequence a registered document was added with
  last             \* the last call made and what it returned

vars == <<documents, inverted_index, next_idx, added, removed, doc_tokens, last>>

\* the three fields of struct Oxidex
engine == <<documents, inverted_index, next_idx>>

\* ------------------------------------------------------------------ bounds
\* add_document succeeds at most MaxDocs times under Spec
MaxDocs == 2
\* add_document succeeds at most MaxRankDocs times under SpecRank
MaxRankDocs == 3
\* add_document fails at its metadata step only while the pending id holds
\* at most MaxPending occurrences afterwards
MaxPending == 1

\* the posting counts are u32: 2^32 = TwoTo16 * TwoTo16
TwoTo16 == 65536

\* u32 addition as the release build performs it (n <= 2^32 here)
WrapU32(n) == IF n \div TwoTo16 = TwoTo16 THEN 0 ELSE n

\* ------------------------------------------------------------- environment
\* paths the caller passes
Paths == {"p1"}

\* contents a file can have when it is read
Files ==
  { <<>>,
    <<"a">>,
    <<"a", " ", "a">>,
    <<"B", ",", " ", "a", " ", "a">> }

\* the contents read under SpecRank
RankFiles == { <<>>, <<"a">> }

\* ids the caller passes to remove_id and get_doc: those issued so far and
\* the pending one, which has never been issued
Ids == 0..next_idx

\* terms the caller passes to search
Queries == { <<"a">>, <<"b">> }

\* ---------------------------------------------------------------- tokenizer
\* String::from_utf8_lossy: a byte that is no valid UTF-8 ("0xFF") becomes the
\* replacement character, every other byte here is the character it encodes
from_utf8_lossy(raw_bytes) ==
  [i \in DOMAIN raw_bytes |->
     IF raw_bytes[i] = "0xFF" THEN "U+FFFD" ELSE raw_bytes[i]]

\* u8::is_ascii_whitespace / str::split_ascii_whitespace
IsAsciiWhitespace(c) == c \in {" ", "\t", "\n", "\r", "\f"}

\* char::is_alphanumeric; "U+0130" is LATIN CAPITAL LETTER I WITH DOT ABOVE.
\* The combining mark "U+0307", the no-break space "U+00A0", "U+FFFD" and
\* the punctuation are not alphanumeric.
IsAlphanumeric(c) == c \in {"a", "b", "i", "A", "B", "0", "1", "U+0130"}

\* str::to_lowercase, one character at a time; U+0130 lowercases to the two
\* characters i, U+0307
LowerChar(c) ==
  CASE c = "A" -> <<"a">>
    [] c = "B" -> <<"b">>
    [] c = "U+0130" -> <<"i", "U+0307">>
    [] OTHER -> <<c>>

RECURSIVE to_lowercase(_)
to_lowercase(s) ==
  IF s = <<>> THEN <<>> ELSE LowerChar(Head(s)) \o to_lowercase(Tail(s))

\* str::split_ascii_whitespace: the maximal runs of non-whitespace
RECURSIVE SplitFrom(_, _)
SplitFrom(s, cur) ==
  IF s = <<>> THEN (IF cur = <<>> THEN <<>> ELSE <<cur>>)
  ELSE IF IsAsciiWhitespace(Head(s))
       THEN (IF cur = <<>> THEN <<>> ELSE <<cur>>) \o SplitFrom(Tail(s), <<>>)
       ELSE SplitFrom(Tail(s), Append(cur, Head(s)))

split_ascii_whitespace(s) == SplitFrom(s, <<>>)

\* str::trim_matches(|c| !c.is_alphanumeric())
RECURSIVE TrimStart(_)
TrimStart(w) ==
  IF w = <<>> \/ IsAlphanumeric(Head(w)) THEN w ELSE TrimStart(Tail(w))

RECURSIVE TrimEnd(_)
TrimEnd(w) ==
  IF w = <<>> \/ IsAlphanumeric(w[Len(w)]) THEN w
  ELSE TrimEnd(SubSeq(w, 1, Len(w) - 1))

trim_matches(w) == TrimEnd(TrimStart(w))

\* the map / filter / map chain of add_document
RECURSIVE NormaliseWords(_)
NormaliseWords(ws) ==
  IF ws = <<>> THEN <<>>
  ELSE LET t == trim_matches(Head(ws))
       IN  (IF t = <<>> THEN <<>> ELSE <<to_lowercase(t)>>)
             \o NormaliseWords(Tail(ws))

\* raw bytes to tokens: lines 36 to 42 of add_document
Tokenize(raw_bytes) ==
  NormaliseWords(split_ascii_whitespace(from_utf8_lossy(raw_bytes)))

\* ------------------------------------------------------------------- index
\* IndexToken with the count of a new entry started at 0
IndexTokenInsertZero(idx, token, id) ==
  LET posting == IF token \in DOMAIN idx THEN idx[token] ELSE <<>>
      count   == IF id \in DOMAIN posting THEN posting[id] + 1 ELSE 0
      posting2 == [d \in (DOMAIN posting) \cup {id} |->
                     IF d = id THEN count ELSE posting[d]]
  IN  [t \in (DOMAIN idx) \cup {token} |->
         IF t = token THEN posting2 ELSE idx[t]]

\* one pass of the loop body: entry(token).or_default().entry(id)
\*   .and_modify(|count| *count += 1).or_insert(1)
IndexToken(idx, token, id) ==
  LET posting == IF token \in DOMAIN idx THEN idx[token] ELSE <<>>
      count   == IF id \in DOMAIN posting THEN WrapU32(posting[id] + 1) ELSE 1
      posting2 == [d \in (DOMAIN posting) \cup {id} |->
                     IF d = id THEN count ELSE posting[d]]
  IN  [t \in (DOMAIN idx) \cup {token} |->
         IF t = token THEN posting2 ELSE idx[t]]

\* IndexTokens writing the occurrences of this file over the stored count
RECURSIVE IndexTokensFromScratch(_, _, _)
IndexTokensFromScratch(idx, tokens, id) ==
  IF tokens = <<>> THEN idx
  ELSE LET t       == Head(tokens)
           n       == Cardinality({ i \in DOMAIN tokens : tokens[i] = t })
           rest    == SelectSeq(Tail(tokens), LAMBDA u : u # t)
           posting == IF t \in DOMAIN idx THEN idx[t] ELSE <<>>
           posting2 == [d \in (DOMAIN posting) \cup {id} |->
                          IF d = id THEN n ELSE posting[d]]
       IN  IndexTokensFromScratch(
             [u \in (DOMAIN idx) \cup {t} |-> IF u = t THEN posting2 ELSE idx[u]],
             rest, id)

\* for token in tokens.clone() { ... }
RECURSIVE IndexTokens(_, _, _)
IndexTokens(idx, tokens, id) ==
  IF tokens = <<>> THEN idx
  ELSE IndexTokens(IndexToken(idx, Head(tokens), id), Tail(tokens), id)

\* DocumentEntry with the two usize arguments taken in the other order
DocumentEntrySwapped(id, path, token_count) ==
  [id |-> token_count, path |-> path, token_count |-> id]

\* DocumentEntry::new on metadata success
DocumentEntry(id, path, token_count) ==
  [id |-> id, path |-> path, token_count |-> token_count]

\* RemoveFromIndex dropping every term the id occurs under
RemoveFromIndexDropsTerms(idx, id) ==
  [t \in {u \in DOMAIN idx : id \notin DOMAIN idx[u]} |-> idx[t]]

\* RemoveFromIndex without the retain
RemoveFromIndexNoRetain(idx, id) ==
  [t \in DOMAIN idx |-> [d \in (DOMAIN idx[t]) \ {id} |-> idx[t][d]]]

\* doc_freq_map.remove(&id) for every term, then retain(!is_empty)
RemoveFromIndex(idx, id) ==
  LET stripped == [t \in DOMAIN idx |->
                     [d \in (DOMAIN idx[t]) \ {id} |-> idx[t][d]]]
  IN  [t \in {u \in DOMAIN idx : DOMAIN stripped[u] # {}} |-> stripped[t]]


\* ------------------------------------------------------------------ scorer
\* A score is [class, tf, len]: its class is one of "nan", "neg_inf", "neg",
\* "zero", "pos", "pos_inf"; when the class is "neg" or "pos" its magnitude
\* is |idf| * tf / sqrt(len), idf being the same for all scores of a search.

\* self.inverted_index.get(token).and_then(|e| e.get(&id)).copied().unwrap_or(0)
term_frequency(token, id) ==
  IF token \in DOMAIN inverted_index /\ id \in DOMAIN inverted_index[token]
  THEN inverted_index[token][id]
  ELSE 0

\* the number of ids in the term's posting list, 0 if the term is unseen
document_frequency(token) ==
  IF token \in DOMAIN inverted_index
  THEN Cardinality(DOMAIN inverted_index[token])
  ELSE 0

\* inverse_document_frequency with n taken as the number of matching documents
IdfOverMatchingDocs(token) ==
  LET df_t == document_frequency(token)
      n    == df_t
  IN  IF n = 0 THEN "neg_inf"
      ELSE IF n < df_t + 1 THEN "neg"
      ELSE IF n = df_t + 1 THEN "zero"
      ELSE "pos"

\* (n / (df_t + 1.0)).log10(), as the class of the f32 it yields
inverse_document_frequency(token) ==
  LET df_t == document_frequency(token)
      n    == Cardinality(DOMAIN documents)
  IN  IF n = 0 THEN "neg_inf"
      ELSE IF n < df_t + 1 THEN "neg"
      ELSE IF n = df_t + 1 THEN "zero"
      ELSE "pos"

\* term_frequency * inverse_document_frequency
get_tf_idf(token, id) ==
  LET tf  == term_frequency(token, id)
      idf == inverse_document_frequency(token)
  IN  IF tf = 0
      THEN [class |-> IF idf = "neg_inf" THEN "nan" ELSE "zero", tf |-> tf]
      ELSE [class |-> idf, tf |-> tf]

\* tf_idf / len.sqrt(), len being the token_count, or 1 for an unregistered id
get_normalised_tf_idf(token, id) ==
  LET tf_idf == get_tf_idf(token, id)
      len    == IF id \in DOMAIN documents THEN documents[id].token_count ELSE 1
      class  ==
        IF len = 0
        THEN CASE tf_idf.class \in {"nan", "zero"}    -> "nan"
               [] tf_idf.class \in {"neg", "neg_inf"} -> "neg_inf"
               [] OTHER                               -> "pos_inf"
        ELSE tf_idf.class
  IN  [class |-> class, tf |-> tf_idf.tf, len |-> len]

ClassRank(class) ==
  CASE class = "neg_inf" -> 0
    [] class = "neg"     -> 1
    [] class = "zero"    -> 2
    [] class = "pos"     -> 3
    [] class = "pos_inf" -> 4

\* x.tf / sqrt(x.len) against y.tf / sqrt(y.len), both lens positive
MagnitudeCmp(x, y) ==
  LET l == x.tf * x.tf * y.len
      r == y.tf * y.tf * x.len
  IN  IF l < r THEN "Less" ELSE IF l > r THEN "Greater" ELSE "Equal"

Reverse(ord) ==
  CASE ord = "Less" -> "Greater" [] ord = "Greater" -> "Less" [] OTHER -> ord

\* f32::partial_cmp: "None" when either side is NaN
partial_cmp(x, y) ==
  IF x.class = "nan" \/ y.class = "nan" THEN "None"
  ELSE IF ClassRank(x.class) < ClassRank(y.class) THEN "Less"
  ELSE IF ClassRank(x.class) > ClassRank(y.class) THEN "Greater"
  ELSE IF x.class = "pos" THEN MagnitudeCmp(x, y)
  ELSE IF x.class = "neg" THEN Reverse(MagnitudeCmp(x, y))
  ELSE "Equal"

\* the closure given to sort_by:
\*   b.score.partial_cmp(&a.score).unwrap_or(Ordering::Equal)
Compare(a, b) ==
  LET ord == partial_cmp(b.score, a.score)
  IN  IF ord = "None" THEN "Equal" ELSE ord

\* slice::sort_by on a short slice: a stable insertion sort, each element
\* moved left past the elements it compares Less than
RECURSIVE InsertTail(_, _)
InsertTail(v, x) ==
  IF v = <<>> \/ Compare(x, v[Len(v)]) # "Less" THEN Append(v, x)
  ELSE Append(InsertTail(SubSeq(v, 1, Len(v) - 1), x), v[Len(v)])

RECURSIVE SortFrom(_, _)
SortFrom(done, rest) ==
  IF rest = <<>> THEN done
  ELSE SortFrom(InsertTail(done, Head(rest)), Tail(rest))

sort_by(v) == SortFrom(<<>>, v)

\* the orders in which a HashMap can yield the keys S
RECURSIVE Orders(_)
Orders(S) ==
  IF S = {} THEN { <<>> }
  ELSE UNION { { <<x>> \o rest : rest \in Orders(S \ {x}) } : x \in S }

\* PostingKeys walking the Registry instead of the posting list
PostingKeysOfRegistry(query) == DOMAIN documents

\* data.keys() of the term's posting list, no keys if the term is absent
PostingKeys(query) ==
  IF query \in DOMAIN inverted_index THEN DOMAIN inverted_index[query] ELSE {}

\* search, keys being the order in which data.keys() yields the ids
search(query, keys) ==
  sort_by([i \in DOMAIN keys |->
             [doc_id |-> keys[i],
              score  |-> get_normalised_tf_idf(query, keys[i])]])

\* get_doc: <<>> is None, <<entry>> is Some(entry)
get_doc(doc_id) ==
  IF doc_id \in DOMAIN documents THEN <<documents[doc_id]>> ELSE <<>>

\* ----------------------------------------------------------------- actions
\* Oxidex::new
Init ==
  /\ documents = <<>>
  /\ inverted_index = <<>>
  /\ next_idx = 0
  /\ added = <<>>
  /\ removed = {}
  /\ doc_tokens = <<>>
  /\ last = [op |-> "new"]

\* occurrences the index holds for id, over all terms
RECURSIVE SumCounts(_, _, _)
SumCounts(idx, terms, id) ==
  IF terms = {} THEN 0
  ELSE LET t == CHOOSE u \in terms : TRUE
       IN  (IF id \in DOMAIN idx[t] THEN idx[t][id] ELSE 0)
             + SumCounts(idx, terms \ {t}, id)

Occurrences(idx, id) == SumCounts(idx, DOMAIN idx, id)

\* AddReadFails with the pending id consumed by the failure
AddReadFailsConsumesId(path) ==
  /\ next_idx' = next_idx + 1
  /\ last' = [op |-> "add_document", ret |-> "ReadErr"]
  /\ UNCHANGED <<documents, inverted_index, added, removed, doc_tokens>>

\* add_document, fs::read fails
AddReadFails(path) ==
  /\ last' = [op |-> "add_document", ret |-> "ReadErr"]
  /\ UNCHANGED <<documents, inverted_index, next_idx, added, removed, doc_tokens>>

\* AddMetadataFails with the index put back as it was
AddMetadataFailsRollsBack(path, content) ==
  /\ last' = [op |-> "add_document", ret |-> "MetaErr", tokens |-> Tokenize(content)]
  /\ UNCHANGED <<documents, inverted_index, next_idx, added, removed, doc_tokens>>

\* add_document, fs::read succeeds and fs::metadata fails
AddMetadataFails(path, content) ==
  LET tokens == Tokenize(content)
  IN  /\ inverted_index' = IndexTokens(inverted_index, tokens, next_idx)
      /\ last' = [op |-> "add_document", ret |-> "MetaErr", tokens |-> tokens]
      /\ UNCHANGED <<documents, next_idx, added, removed, doc_tokens>>

\* AddOk with the counter incremented before the id is used
AddOkIncrementsFirst(path, content) ==
  LET tokens == Tokenize(content)
      id     == next_idx + 1
      entry  == DocumentEntry(id, path, Len(tokens))
  IN  /\ inverted_index' = IndexTokens(inverted_index, tokens, id)
      /\ documents' = [d \in (DOMAIN documents) \cup {id} |->
                         IF d = id THEN entry ELSE documents[d]]
      /\ next_idx' = id
      /\ added' = Append(added, id)
      /\ doc_tokens' = [d \in (DOMAIN doc_tokens) \cup {id} |->
                          IF d = id THEN tokens ELSE doc_tokens[d]]
      /\ last' = [op |-> "add_document", ret |-> "Ok", tokens |-> tokens]
      /\ UNCHANGED removed

\* add_document, both succeed
AddOk(path, content) ==
  LET tokens == Tokenize(content)
      entry  == DocumentEntry(next_idx, path, Len(tokens))
  IN  /\ inverted_index' = IndexTokens(inverted_index, tokens, next_idx)
      /\ documents' = [d \in (DOMAIN documents) \cup {next_idx} |->
                         IF d = next_idx THEN entry ELSE documents[d]]
      /\ next_idx' = next_idx + 1
      /\ added' = Append(added, next_idx)
      /\ doc_tokens' = [d \in (DOMAIN doc_tokens) \cup {next_idx} |->
                          IF d = next_idx THEN tokens ELSE doc_tokens[d]]
      /\ last' = [op |-> "add_document", ret |-> "Ok", tokens |-> tokens]
      /\ UNCHANGED removed

\* RemoveId handing the id back when the newest document is removed
RemoveIdFreesId(id) ==
  LET existed == id \in DOMAIN documents
  IN  /\ documents' = [d \in (DOMAIN documents) \ {id} |-> documents[d]]
      /\ inverted_index' = RemoveFromIndex(inverted_index, id)
      /\ next_idx' = IF existed /\ id = next_idx - 1 THEN id ELSE next_idx
      /\ removed' = IF existed THEN removed \cup {id} ELSE removed
      /\ doc_tokens' = IF existed
                       THEN [d \in (DOMAIN doc_tokens) \ {id} |-> doc_tokens[d]]
                       ELSE doc_tokens
      /\ last' = [op |-> "remove_id", id |-> id, ret |-> existed]
      /\ UNCHANGED added

\* RemoveId looking the id up after the removal
RemoveIdChecksAfter(id) ==
  LET existed == id \in DOMAIN documents
  IN  /\ documents' = [d \in (DOMAIN documents) \ {id} |-> documents[d]]
      /\ inverted_index' = RemoveFromIndex(inverted_index, id)
      /\ removed' = IF existed THEN removed \cup {id} ELSE removed
      /\ doc_tokens' = IF existed
                       THEN [d \in (DOMAIN doc_tokens) \ {id} |-> doc_tokens[d]]
                       ELSE doc_tokens
      /\ last' = [op |-> "remove_id", id |-> id, ret |-> id \in DOMAIN documents']
      /\ UNCHANGED <<next_idx, added>>

\* remove_id
RemoveId(id) ==
  LET existed == id \in DOMAIN documents
  IN  /\ documents' = [d \in (DOMAIN documents) \ {id} |-> documents[d]]
      /\ inverted_index' = RemoveFromIndex(inverted_index, id)
      /\ removed' = IF existed THEN removed \cup {id} ELSE removed
      /\ doc_tokens' = IF existed
                       THEN [d \in (DOMAIN doc_tokens) \ {id} |-> doc_tokens[d]]
                       ELSE doc_tokens
      /\ last' = [op |-> "remove_id", id |-> id, ret |-> existed]
      /\ UNCHANGED <<next_idx, added>>

GetDoc(doc_id) ==
  /\ last' = [op |-> "get_doc", id |-> doc_id, ret |-> get_doc(doc_id)]
  /\ UNCHANGED <<documents, inverted_index, next_idx, added, removed, doc_tokens>>

Search(query) ==
  /\ \E keys \in Orders(PostingKeys(query)) :
       last' = [op |-> "search", query |-> query, ret |-> search(query, keys)]
  /\ UNCHANGED <<documents, inverted_index, next_idx, added, removed, doc_tokens>>

\* the failing add_document leaves at most MaxPending occurrences pending
PendingWithin(content) ==
  Occurrences(IndexTokens(inverted_index, Tokenize(content), next_idx), next_idx)
    <= MaxPending

Next ==
  \/ \E p \in Paths : AddReadFails(p)
  \/ \E p \in Paths, c \in Files : PendingWithin(c) /\ AddMetadataFails(p, c)
  \/ \E p \in Paths, c \in Files : next_idx < MaxDocs /\ AddOk(p, c)
  \/ \E id \in Ids : RemoveId(id)
  \/ \E id \in Ids : GetDoc(id)
  \/ \E q \in Queries : Search(q)

Spec == Init /\ [][Next]_vars

\* more documents, fewer contents: the states search ranks over
NextRank ==
  \/ \E p \in Paths : AddReadFails(p)
  \/ \E p \in Paths, c \in RankFiles : PendingWithin(c) /\ AddMetadataFails(p, c)
  \/ \E p \in Paths, c \in RankFiles : next_idx < MaxRankDocs /\ AddOk(p, c)
  \/ \E id \in Ids : RemoveId(id)
  \/ \E id \in Ids : GetDoc(id)
  \/ \E q \in Queries : Search(q)

SpecRank == Init /\ [][NextRank]_vars

\* --------------------------------------------------------- tokenizer alone
\* the longest file content the tokenizer is run on under SpecTok
MaxTextLen == 3

\* the characters of those contents: a letter, a capital, a space, a comma,
\* the capital I with dot above and the no-break space
Chars == {"a", "B", " ", ",", "U+0130", "U+00A0"}

Texts == UNION { [1..n -> Chars] : n \in 0..MaxTextLen }

\* the tokens joined by single spaces
RECURSIVE Join(_)
Join(tokens) ==
  IF tokens = <<>> THEN <<>>
  ELSE IF Len(tokens) = 1 THEN Head(tokens)
  ELSE Head(tokens) \o <<" ">> \o Join(Tail(tokens))

\* a file content has been read
InitTok ==
  /\ documents = <<>>
  /\ inverted_index = <<>>
  /\ next_idx = 0
  /\ added = <<>>
  /\ removed = {}
  /\ doc_tokens = <<>>
  /\ \E text \in Texts : last = [op |-> "read", raw_bytes |-> text]

\* lines 36 to 42 of add_document on the content read
TokenizeRead ==
  /\ last.op = "read"
  /\ last' = [op |-> "tokenize", raw_bytes |-> last.raw_bytes,
              tokens |-> Tokenize(last.raw_bytes)]
  /\ UNCHANGED <<documents, inverted_index, next_idx, added, removed, doc_tokens>>

\* the same lines on the tokens joined by spaces
TokenizeJoined ==
  /\ last.op = "tokenize"
  /\ last' = [op |-> "retokenize", raw_bytes |-> last.raw_bytes,
              tokens |-> last.tokens, again |-> Tokenize(Join(last.tokens))]
  /\ UNCHANGED <<documents, inverted_index, next_idx, added, removed, doc_tokens>>

NextTok == TokenizeRead \/ TokenizeJoined

SpecTok == InitTok /\ [][NextTok]_vars

\* ------------------------------------------------------------------ claims
Range(f) == { f[x] : x \in DOMAIN f }

\* every order in which search can answer query in the current state
Answers(query) == { search(query, keys) : keys \in Orders(PostingKeys(query)) }

\* C1: the k-th successful add_document registers its document under id k;
\* next_idx is the number of successful add_document calls, never decreases,
\* is left alone by remove_id and by a failing add_document, and no id is
\* issued twice.
C1_IdsInCallOrder ==
  /\ next_idx = Len(added)
  /\ [][ /\ next_idx' >= next_idx
         /\ next_idx' = Len(added')
         /\ \A k \in 1..Len(added') : added'[k] = k - 1
         /\ (last'.op = "remove_id" => next_idx' = next_idx)
         /\ (last'.op = "add_document" /\ last'.ret # "Ok" => next_idx' = next_idx)
         /\ (last'.op = "add_document" /\ last'.ret = "Ok" =>
               /\ next_idx' = next_idx + 1
               /\ next_idx \notin DOMAIN documents
               /\ next_idx \notin removed
               /\ next_idx \in DOMAIN documents'
               /\ documents'[next_idx].id = next_idx) ]_vars

\* a second document has just been registered after a removal
C1_Witness ==
  /\ last.op = "add_document"
  /\ last.ret = "Ok"
  /\ added = <<0, 1>>
  /\ removed = {0}

\* C2: right after remove_id(x) returned true, get_doc(x) is None, no posting
\* list contains x and no term is left with an empty posting list.
C2_RemovedIsGone ==
  (last.op = "remove_id" /\ last.ret) =>
    /\ get_doc(last.id) = <<>>
    /\ \A t \in DOMAIN inverted_index :
         /\ last.id \notin DOMAIN inverted_index[t]
         /\ DOMAIN inverted_index[t] # {}

\* remove_id returned true while another document stays indexed
C2_Witness ==
  /\ last.op = "remove_id"
  /\ last.ret
  /\ DOMAIN documents # {}
  /\ <<"a">> \in DOMAIN inverted_index
  /\ <<"b">> \notin DOMAIN inverted_index

\* C3: remove_id(x) with x not in the Registry returns false and leaves the
\* Registry, the inverted index and next_idx as they were.
C3_RemoveAbsentIsNoOp ==
  [][ (last'.op = "remove_id" /\ last'.id \notin DOMAIN documents) =>
        (~last'.ret /\ UNCHANGED engine) ]_vars

\* C4: every id in a posting list is a key of the Registry.
C4_NoDanglingIds ==
  \A t \in DOMAIN inverted_index : DOMAIN inverted_index[t] \subseteq DOMAIN documents

\* C5: for every registered document the counts stored for it, summed over
\* all terms, equal its token_count.
C5_CountsSumToTokenCount ==
  \A d \in DOMAIN documents :
    Occurrences(inverted_index, d) = documents[d].token_count

\* C6: no term maps to an empty posting list and every stored count is at
\* least 1.
C6_NoEmptyPostingNoZeroCount ==
  \A t \in DOMAIN inverted_index :
    /\ DOMAIN inverted_index[t] # {}
    /\ \A d \in DOMAIN inverted_index[t] : inverted_index[t][d] >= 1

\* a document with a repeated term is indexed after another was removed
C6_Witness ==
  /\ removed # {}
  /\ \E t \in DOMAIN inverted_index :
       \E d \in DOMAIN inverted_index[t] : inverted_index[t][d] >= 2

\* C7: an add_document whose file read fails returns the error and leaves
\* the Registry, the inverted index and next_idx as they were.
C7_ReadFailureMutatesNothing ==
  [][ (last'.op = "add_document" /\ last'.ret = "ReadErr") => UNCHANGED engine ]_vars

\* a read failure on an engine that holds a document
C7_Witness ==
  /\ last.op = "add_document"
  /\ last.ret = "ReadErr"
  /\ DOMAIN documents # {}
  /\ inverted_index # <<>>

C9_AbsentTermEmptyResult ==
  /\ \A q \in Queries :
       q \notin DOMAIN inverted_index => Answers(q) = { <<>> }
  /\ (last.op = "search" /\ last.query \notin DOMAIN inverted_index) =>
       last.ret = <<>>

\* search was called for a term whose only document has been removed
C9_Witness ==
  /\ last.op = "search"
  /\ last.query = <<"b">>
  /\ <<"b">> \notin DOMAIN inverted_index
  /\ removed # {}
  /\ DOMAIN documents # {}

\* C10: the list search(t) returns is sorted by score descending: each
\* result's score is >= the score of the result after it.
C10_SearchSortedDescending ==
  \A q \in Queries : \A r \in Answers(q) :
    \A i \in 1..(Len(r) - 1) :
      partial_cmp(r[i].score, r[i + 1].score) \in {"Greater", "Equal"}


\* the count stored for (term, id) in idx, 0 when there is none
Count(idx, t, d) ==
  IF t \in DOMAIN idx /\ d \in DOMAIN idx[t] THEN idx[t][d] ELSE 0

\* how often term t occurs in a token sequence
CountIn(tokens, t) == Cardinality({ i \in DOMAIN tokens : tokens[i] = t })

\* every id some posting list holds
IndexedIds(idx) == UNION { DOMAIN idx[t] : t \in DOMAIN idx }

\* C11: remove_id(x) returns a boolean, true exactly when x was a key of the
\* Registry right before the call; x is no key afterwards, so a second
\* consecutive remove_id(x) returns false.
C11_RemoveReturnsExisted ==
  [][ last'.op = "remove_id" =>
        /\ last'.ret \in BOOLEAN
        /\ last'.ret <=> (last'.id \in DOMAIN documents)
        /\ last'.id \notin DOMAIN documents'
        /\ (last.op = "remove_id" /\ last.id = last'.id) => ~last'.ret ]_vars

\* remove_id has just returned false for an id it removed before
C11_Witness ==
  /\ last.op = "remove_id"
  /\ ~last.ret
  /\ last.id \in removed

\* C12: get_doc changes nothing and returns an entry exactly for the ids a
\* successful add_document assigned and remove_id has not removed since; the
\* entry carries the requested id and the length of the token sequence the
\* document was added with.
C12_GetDocReturnsLiveEntry ==
  /\ [](\A id \in 0..(next_idx + 1) :
         /\ (get_doc(id) # <<>>) <=> (id \in Range(added) /\ id \notin removed)
         /\ get_doc(id) # <<>> =>
              /\ get_doc(id)[1].id = id
              /\ get_doc(id)[1].token_count = Len(doc_tokens[id]))
  /\ [][ last'.op = "get_doc" =>
          /\ UNCHANGED <<documents, inverted_index, next_idx>>
          /\ last'.ret = get_doc(last'.id) ]_vars

\* get_doc has just returned the entry of a three-token document while
\* another id is gone
C12_Witness ==
  /\ last.op = "get_doc"
  /\ last.ret # <<>>
  /\ last.ret[1].token_count = 3
  /\ removed # {}

\* C13: an add_document that fails at the metadata step returns the error,
\* leaves the Registry and next_idx alone and keeps the increments it made
\* for the pending id: every count of next_idx has grown by the occurrences
\* of its term in the file, and with a non-empty file the index holds an id
\* that is not registered.
C13_MetadataFailureKeepsIncrements ==
  [][ (last'.op = "add_document" /\ last'.ret = "MetaErr") =>
        /\ UNCHANGED <<documents, next_idx>>
        /\ \A t \in (DOMAIN inverted_index') \cup Range(last'.tokens) :
             \A d \in 0..next_idx :
               Count(inverted_index', t, d)
                 = Count(inverted_index, t, d)
                     + (IF d = next_idx THEN CountIn(last'.tokens, t) ELSE 0)
        /\ last'.tokens # <<>> =>
             /\ next_idx \in IndexedIds(inverted_index')
             /\ next_idx \notin DOMAIN documents' ]_vars

\* a metadata failure with a token has just happened beside a registered
\* document
C13_Witness ==
  /\ last.op = "add_document"
  /\ last.ret = "MetaErr"
  /\ last.tokens # <<>>
  /\ DOMAIN documents # {}
  /\ next_idx \in IndexedIds(inverted_index)


\* C14: the IDF of a search is negative exactly when df(t) + 1 exceeds the
\* number of registered documents; so when every registered document is in
\* t's posting list, of two registered documents with the same term
\* frequency the one with the larger token_count is ranked first.
C14_NegativeIdfRanksLongerFirst ==
  \A q \in Queries :
    /\ (inverse_document_frequency(q) \in {"neg", "neg_inf"})
         <=> (document_frequency(q) + 1 > Cardinality(DOMAIN documents))
    /\ (DOMAIN documents # {} /\ DOMAIN documents \subseteq PostingKeys(q)) =>
         \A r \in Answers(q) : \A i, j \in DOMAIN r :
           ( /\ r[i].doc_id \in DOMAIN documents
             /\ r[j].doc_id \in DOMAIN documents
             /\ term_frequency(q, r[i].doc_id) = term_frequency(q, r[j].doc_id)
             /\ documents[r[i].doc_id].token_count
                  > documents[r[j].doc_id].token_count ) => i < j

\* A = "b a a" and B = "a a" are registered and search("a") has just
\* returned A before B
C14_Witness ==
  /\ last.op = "search"
  /\ last.query = <<"a">>
  /\ DOMAIN documents = {0, 1}
  /\ doc_tokens[1] = << <<"b">>, <<"a">>, <<"a">> >>
  /\ doc_tokens[0] = << <<"a">>, <<"a">> >>
  /\ Len(last.ret) = 2
  /\ last.ret[1].doc_id = 1
  /\ last.ret[2].doc_id = 0
  /\ last.ret[1].score.class = "neg"


\* C15: every token the tokenizer produces is non-empty and holds no ASCII
\* whitespace, and tokenizing the space-joined tokens yields the same token
\* sequence again.
C15_TokenizerIdempotent ==
  /\ last.op \in {"tokenize", "retokenize"} =>
       \A i \in DOMAIN last.tokens :
         /\ last.tokens[i] # <<>>
         /\ \A k \in DOMAIN last.tokens[i] : ~IsAsciiWhitespace(last.tokens[i][k])
  /\ last.op = "retokenize" => last.again = last.tokens


\* C16: every key of the Registry is below next_idx and every id in a
\* posting list is at most next_idx; the id next_idx gets into the index
\* only by an add_document that fails at the metadata step.
C16_IdsBelowNextIdx ==
  /\ [](/\ \A d \in DOMAIN documents : d < next_idx
        /\ \A d \in IndexedIds(inverted_index) : d <= next_idx)
  /\ [][ next_idx' \in IndexedIds(inverted_index') =>
          \/ (next_idx' = next_idx /\ next_idx \in IndexedIds(inverted_index))
          \/ (last'.op = "add_document" /\ last'.ret = "MetaErr") ]_vars

\* the index holds the pending id 1 beside the registered document 0
C16_Witness ==
  /\ next_idx = 1
  /\ 0 \in DOMAIN documents
  /\ 0 \in IndexedIds(inverted_index)
  /\ 1 \in IndexedIds(inverted_index)

\* C17: a successful add_document raises the count stored for (t, next_idx)
\* by the number of times t occurs in the file, on top of the count already
\* stored, and leaves every other id's counts and every other term alone.
C17_AddRaisesCountsOfPendingId ==
  [][ (last'.op = "add_document" /\ last'.ret = "Ok") =>
        \A t \in (DOMAIN inverted_index) \cup (DOMAIN inverted_index')
                 \cup Range(last'.tokens) :
          \A d \in 0..next_idx' :
            Count(inverted_index', t, d)
              = Count(inverted_index, t, d)
                  + (IF d = next_idx THEN CountIn(last'.tokens, t) ELSE 0) ]_vars

\* a document has just been added on top of a count left for its id
C17_Witness ==
  /\ last.op = "add_document"
  /\ last.ret = "Ok"
  /\ CountIn(last.tokens, <<"a">>) >= 1
  /\ Count(inverted_index, <<"a">>, next_idx - 1) > CountIn(last.tokens, <<"a">>)

\* C18: remove_id(x) leaves the Registry entry and every stored count of
\* every other id, and next_idx, as they were.
C18_RemoveTouchesOnlyItsId ==
  [][ last'.op = "remove_id" =>
        /\ next_idx' = next_idx
        /\ \A y \in (0..next_idx) \ {last'.id} :
             /\ (y \in DOMAIN documents) <=> (y \in DOMAIN documents')
             /\ y \in DOMAIN documents => documents'[y] = documents[y]
             /\ \A t \in (DOMAIN inverted_index) \cup (DOMAIN inverted_index') :
                  Count(inverted_index', t, y) = Count(inverted_index, t, y) ]_vars

\* document 0 has just been removed and document 1 still has its counts
C18_Witness ==
  /\ last.op = "remove_id"
  /\ last.ret
  /\ last.id = 0
  /\ 1 \in DOMAIN documents
  /\ Occurrences(inverted_index, 1) >= 2

\* C19: every id in a posting list is registered with a token_count of at
\* least 1, and no score search returns is NaN or infinite.
C19_NoZeroLengthScore ==
  /\ \A d \in IndexedIds(inverted_index) :
       d \in DOMAIN documents /\ documents[d].token_count >= 1
  /\ \A q \in Queries : \A r \in Answers(q) : \A i \in DOMAIN r :
       r[i].score.class \notin {"nan", "neg_inf", "pos_inf"}

====
